---- MODULE Spec2Model ----
(***************************************************************************)
(* Model of pytorch-segmentation.ipynb: the helper display_segmentation    *)
(* (palette, mask image, resize, alpha compositing), the input scaling     *)
(* handed to ct.convert, and the order in which the notebook's cells save  *)
(* and load the converted model.                                           *)
(*                                                                         *)
(* Library calls the notebook makes (Pillow's Image.resize, putpalette,    *)
(* convert, putalpha, alpha_composite; torch's Tensor.byte) are modelled   *)
(* by what the library computes on 8-bit data.  Where the result depends   *)
(* on the installed Pillow release (the default resize filter, the colour  *)
(* of a palette entry that putpalette did not set) the release is a        *)
(* variable chosen in Init and every outcome is explored.                  *)
(***************************************************************************)
EXTENDS Integers, Sequences, FiniteSets, TLC

VARIABLES
    pillow,             \* installed Pillow release family
    img,                \* heap of mutable Image objects, by reference
    output_predictions, \* argument of display_segmentation
    in0,                \* value of the base image when the call started
    pred0,              \* value of output_predictions when the call started
    pc,                 \* position inside display_segmentation
    colors,             \* local: the colour table
    r,                  \* local: the mask image
    alpha_image,        \* local: reference to the copy of the base image
    seg_image,          \* local / return value: the composite
    exc,                \* exception raised by the call, or "none"
    calls,              \* number of calls of display_segmentation started
    prev_seg,           \* composite returned by the previous call
    cell,               \* notebook: next cell to run
    IS_MACOS,           \* notebook: sys.platform == 'darwin'
    torch_predictions,  \* notebook: output.argmax(0)
    mlmodel,            \* notebook: user_defined_metadata of mlmodel
    files,              \* notebook: saved .mlmodel files, <<name, metadata>>
    saves,              \* notebook: names passed to mlmodel.save, in order
    loaded_model,       \* notebook: name of the file loaded on macOS
    prediction,         \* notebook: value of `prediction`
    result,             \* notebook: value of `result`
    nclasses,           \* palette study: class count N
    table,              \* palette study: colours of 0..N-1
    p, ch,              \* scaling study: pixel value and channel
    torch_in,           \* scaling study: preprocess(p)[ch], a rational
    coreml_in           \* scaling study: p*scale + bias[ch], a rational

segvars == <<pillow, img, output_predictions, in0, pred0, pc, colors, r,
             alpha_image, seg_image, exc, calls, prev_seg>>
nbvars == <<cell, IS_MACOS, torch_predictions, mlmodel, files, saves,
            loaded_model, prediction, result>>
palvars == <<nclasses, table>>
scalevars == <<p, ch, torch_in, coreml_in>>
vars == <<segvars, nbvars, palvars, scalevars>>

----------------------------------------------------------------------------
(* Bounds of the explored inputs *)

MaxW == 2        \* base image width  1..MaxW
MaxH == 2        \* base image height 1..MaxH
MaxGridW == 2    \* label grid width  1..MaxGridW
MaxGridH == 2    \* label grid height 1..MaxGridH
MaxCalls == 2    \* calls of display_segmentation on the same arguments
MaxClasses == 256 \* largest class count N of the palette study

----------------------------------------------------------------------------
(* The colour table, lines 121-123 *)

NumClasses == 21

Pow2(n) == 2 ^ n

\* palette = torch.tensor([2 ** 25 - 1, 2 ** 15 - 1, 2 ** 21 - 1])
paletteCollapsed == <<Pow2(24) - 1, Pow2(16) - 1, Pow2(24) - 1>>
palette == <<Pow2(25) - 1, Pow2(15) - 1, Pow2(21) - 1>>

\* (a * b) % m for the int64 product a * b, which torch computes without
\* overflow (a <= 256, b < 2^25); evaluated by doubling so that no
\* intermediate value exceeds 32 bits.
RECURSIVE MulMod(_, _, _)
MulMod(a, b, m) ==
    IF a = 0 THEN 0
    ELSE LET half == MulMod(a \div 2, b, m)
             dbl == (2 * half) % m
         IN IF a % 2 = 1 THEN (dbl + (b % m)) % m ELSE dbl

\* .astype("uint8")
AsUint8(v) == v % 256

\* colors[i] = (i * palette) % 255, as uint8
PaletteColorMod25(i) == [k \in 1..3 |-> AsUint8(MulMod(i, palette[k], 25))]
PaletteColor(i) == [k \in 1..3 |-> AsUint8(MulMod(i, palette[k], 255))]

\* torch.as_tensor([i for i in range(n)])[:, None] * palette, % 255;
\* entry i of the table is at position i + 1
Colors(n) == [i \in 1..n |-> PaletteColor(i - 1)]

----------------------------------------------------------------------------
(* Values *)

Coords(w, h) == (0..(w - 1)) \X (0..(h - 1))

\* An Image: mode, size (w, h), pixel access px[<<x, y>>], attached palette
MkImage(mode, w, h, px, pal) ==
    [mode |-> mode, w |-> w, h |-> h, px |-> px, palette |-> pal]

\* A torch tensor of shape (h, w), or the dict that MLModel.predict returns
MkTensor(w, h, data) == [kind |-> "tensor", w |-> w, h |-> h, data |-> data]
PredictDict == [kind |-> "dict", w |-> 0, h |-> 0, data |-> <<>>]

Max(a, b) == IF a >= b THEN a ELSE b
Min(a, b) == IF a <= b THEN a ELSE b
Abs(a) == IF a >= 0 THEN a ELSE -a

RECURSIVE SumRange(_, _, _)
\* sum of f[j] for j in lo..hi
SumRange(f, lo, hi) == IF lo > hi THEN 0 ELSE f[lo] + SumRange(f, lo + 1, hi)

----------------------------------------------------------------------------
(* Pillow releases.  Image.resize on an "L" image defaults to NEAREST       *)
(* before release 7.0 and to BICUBIC from 7.0 on; a new palette starts as   *)
(* the grey ramp before release 9.1 and as zeros from 9.1 on.               *)

PillowBuilds == {"pre7", "from7", "from9_1"}

DefaultResample(build) == IF build = "pre7" THEN "NEAREST" ELSE "BICUBIC"

\* colour of palette entry idx that putpalette did not set
UnsetEntry(build, idx) ==
    IF build = "from9_1" THEN <<0, 0, 0>> ELSE <<idx, idx, idx>>

----------------------------------------------------------------------------
(* output_predictions.byte().cpu().numpy() and Image.fromarray, 126-127 *)

\* Tensor.byte(): conversion to uint8
ByteClamped(v) == IF v > NumClasses - 1 THEN NumClasses - 1 ELSE v % 256
Byte(v) == v % 256

\* Image.fromarray of a 2-D uint8 array of shape (h, w): mode "L", size (w, h)
FromArray(t) ==
    MkImage("L", t.w, t.h, [xy \in Coords(t.w, t.h) |-> Byte(t.data[xy])], <<>>)

----------------------------------------------------------------------------
(* Image.resize, line 128 *)

\* NEAREST: source coordinate of output coordinate x, floor((x + 0.5) * n / m)
NearestSrc(x, n, m) == (n * (2 * x + 1)) \div (2 * m)

ResizeNearest(im, W, H) ==
    MkImage(im.mode, W, H,
            [xy \in Coords(W, H) |->
                im.px[<<NearestSrc(xy[1], im.w, W), NearestSrc(xy[2], im.h, H)>>]],
            im.palette)

\* BICUBIC, one axis, n input samples to m output samples (Resample.c).
\* The filter argument of tap j for output xx is T / D with
\* T = m(2j+1) - n(2xx+1), D = 2 * max(m, n); weights are kept as integer
\* numerators over the common denominator 2 D^3.
PrecisionBits == 22

CubicNum(T, D) ==
    LET A == Abs(T)
    IN IF A < D THEN (3 * A - 5 * D) * A * A + 2 * D * D * D
       ELSE IF A < 2 * D
            THEN -(A * A * A - 5 * D * A * A + 8 * D * D * A - 4 * D * D * D)
            ELSE 0

\* first tap and one past the last tap (precompute_coeffs: xmin, xmin + xmax)
TapMin(xx, n, m) ==
    Max(0, (n * (2 * xx + 1) - 4 * Max(m, n) + m) \div (2 * m))
TapEnd(xx, n, m) ==
    Min(n, (n * (2 * xx + 1) + 4 * Max(m, n) + m) \div (2 * m))

\* round(W / S * 2^PrecisionBits), halves away from zero (normalize_coeffs_8bpc)
FixedCoeff(W, S) ==
    LET one == 2 ^ PrecisionBits
        q0 == one \div S
        r0 == one % S
        a == Abs(W)
        q == a * q0 + (a * r0) \div S
        rem == (a * r0) % S
        mag == IF 2 * rem >= S THEN q + 1 ELSE q
    IN IF W < 0 THEN -mag ELSE mag

Clip8(v) == IF v < 0 THEN 0 ELSE IF v > 255 THEN 255 ELSE v

\* one output sample from the line of input samples line[0..n-1]
CubicSample(line, xx, n, m) ==
    LET D == 2 * Max(m, n)
        lo == TapMin(xx, n, m)
        hi == TapEnd(xx, n, m) - 1
        Wt == [j \in lo..hi |-> CubicNum(m * (2 * j + 1) - n * (2 * xx + 1), D)]
        S == SumRange(Wt, lo, hi)
        term == [j \in lo..hi |-> line[j] * FixedCoeff(Wt[j], S)]
        ss0 == 2 ^ (PrecisionBits - 1) + SumRange(term, lo, hi)
    IN Clip8(ss0 \div (2 ^ PrecisionBits))

\* horizontal pass, then vertical pass, each only when that size changes
ResizeBicubic(im, W, H) ==
    LET hpx == IF W = im.w THEN im.px
               ELSE [xy \in Coords(W, im.h) |->
                       CubicSample([j \in 0..(im.w - 1) |-> im.px[<<j, xy[2]>>]],
                                   xy[1], im.w, W)]
        vpx == IF H = im.h THEN hpx
               ELSE [xy \in Coords(W, H) |->
                       CubicSample([j \in 0..(im.h - 1) |-> hpx[<<xy[1], j>>]],
                                   xy[2], im.h, H)]
    IN MkImage(im.mode, W, H, vpx, im.palette)

\* Image.resize(size) with the default filter; a same-size resize is a copy
ResizeKeepSize(im, W, H, resample) == im
Resize(im, W, H, resample) ==
    IF im.w = W /\ im.h = H THEN im
    ELSE IF resample = "NEAREST" THEN ResizeNearest(im, W, H)
    ELSE ResizeBicubic(im, W, H)

----------------------------------------------------------------------------
(* putpalette, copy, putalpha, convert, alpha_composite, lines 129-136 *)

\* r.putpalette(colors): mode "L" becomes "P" with the given colour table
PutPalette(im, table_) == [im EXCEPT !.mode = "P", !.palette = table_]

\* colour of index idx of a "P" image
PaletteEntry(im, idx, build) ==
    IF idx < Len(im.palette) THEN im.palette[idx + 1] ELSE UnsetEntry(build, idx)

\* r.convert("RGBA") of a "P" image: palette colour, opaque
ConvertRGBA(im, build) ==
    MkImage("RGBA", im.w, im.h,
            [xy \in Coords(im.w, im.h) |->
                LET e == PaletteEntry(im, im.px[xy], build)
                IN <<e[1], e[2], e[3], 255>>],
            <<>>)

\* im.putalpha(a) on an "RGB" or "RGBA" image: in place, mode becomes "RGBA"
PutAlpha(im, a) ==
    MkImage("RGBA", im.w, im.h,
            [xy \in Coords(im.w, im.h) |->
                <<im.px[xy][1], im.px[xy][2], im.px[xy][3], a>>],
            im.palette)

\* AlphaComposite.c
ShiftForDiv255(a) == (((a \div 256) + a) \div 256)

CompositePixel(dst, src) ==
    IF src[4] = 0 THEN dst
    ELSE LET blend == dst[4] * (255 - src[4])
             outa255 == src[4] * 255 + blend
             coef1 == (src[4] * 255 * 255 * 128) \div outa255
             coef2 == 255 * 128 - coef1
             chan(k) == ShiftForDiv255(src[k] * coef1 + dst[k] * coef2
                                       + 128 * 128) \div 128
         IN <<chan(1), chan(2), chan(3), ShiftForDiv255(outa255 + 128)>>

\* Image.alpha_composite accepts two "RGBA" images of the same size
CompositeOK(im1, im2) ==
    /\ im1.mode = "RGBA" /\ im2.mode = "RGBA"
    /\ im1.w = im2.w /\ im1.h = im2.h

AlphaComposite(im1, im2) ==
    MkImage("RGBA", im1.w, im1.h,
            [xy \in Coords(im1.w, im1.h) |-> CompositePixel(im1.px[xy], im2.px[xy])],
            <<>>)

----------------------------------------------------------------------------
(* Inputs explored *)

NoImage == MkImage("none", 0, 0, <<>>, <<>>)
NoTensor == [kind |-> "none", w |-> 0, h |-> 0, data |-> <<>>]

\* pixel colours of base images
BaseColours == {<<255, 255, 255>>, <<10, 100, 200>>}

\* label values: class 0, a class in range, the first and the last value
\* above the 21 classes
LabelVals == {0, 12, 21, 255}

\* "RGB" base images of size W x H: white, or a white and blue checkerboard
BaseImages ==
    { MkImage("RGB", W, H,
              [xy \in Coords(W, H) |->
                  IF (xy[1] + xy[2]) % 2 = 0 THEN <<255, 255, 255>> ELSE c2],
              <<>>) :
        <<W, H, c2>> \in (1..MaxW) \X (1..MaxH) \X BaseColours }

\* label grids of size w x h: the first k cells in row order hold label a,
\* the rest label b >= a (k = w * h: label a everywhere)
GridsOver(labels, ws, hs) ==
    UNION { { MkTensor(w, h, [xy \in Coords(w, h) |->
                                IF xy[2] * w + xy[1] < k THEN a ELSE b]) :
                k \in 1..(w * h) } :
            <<w, h, a, b>> \in {q \in ws \X hs \X labels \X labels : q[3] <= q[4]} }

LabelGrids == GridsOver(LabelVals, 1..MaxGridW, 1..MaxGridH)

----------------------------------------------------------------------------
(* display_segmentation, lines 119-137, one action per statement *)

Locals0 ==
    /\ colors = <<>>
    /\ r = NoImage
    /\ alpha_image = "none"
    /\ seg_image = NoImage
    /\ exc = "none"

\* lines 121-123
BuildPalette ==
    /\ pc = "start"
    /\ colors' = Colors(NumClasses)
    /\ pc' = "mask"
    /\ UNCHANGED <<pillow, img, output_predictions, in0, pred0, r, alpha_image,
                   seg_image, exc, calls, prev_seg>>
    /\ UNCHANGED <<nbvars, palvars, scalevars>>

\* lines 126-128: a value without .byte() raises AttributeError
MakeMask ==
    /\ pc = "mask"
    /\ IF output_predictions.kind = "tensor"
       THEN /\ r' = Resize(FromArray(output_predictions),
                           img["input"].w, img["input"].h, DefaultResample(pillow))
            /\ pc' = "putpalette"
            /\ exc' = exc
       ELSE /\ r' = r
            /\ pc' = "raised"
            /\ exc' = "AttributeError"
    /\ UNCHANGED <<pillow, img, output_predictions, in0, pred0, colors,
                   alpha_image, seg_image, calls, prev_seg>>
    /\ UNCHANGED <<nbvars, palvars, scalevars>>

\* line 129
PutPaletteStep ==
    /\ pc = "putpalette"
    /\ r' = PutPalette(r, colors)
    /\ pc' = "copy"
    /\ UNCHANGED <<pillow, img, output_predictions, in0, pred0, colors,
                   alpha_image, seg_image, exc, calls, prev_seg>>
    /\ UNCHANGED <<nbvars, palvars, scalevars>>

\* Image.copy(): a new object, here the heap cell fresh
ImageCopyAlias(ref, fresh) == ref
ImageCopy(ref, fresh) == fresh

\* line 132
CopyStep ==
    /\ pc = "copy"
    /\ alpha_image' = ImageCopy("input", "copy")
    /\ img' = [img EXCEPT ![alpha_image'] = img["input"]]
    /\ pc' = "putalpha_base"
    /\ UNCHANGED <<pillow, output_predictions, in0, pred0, colors, r,
                   seg_image, exc, calls, prev_seg>>
    /\ UNCHANGED <<nbvars, palvars, scalevars>>

BaseAlpha == 255
MaskAlphaOpaque == BaseAlpha
MaskAlpha == 128

\* line 133
PutAlphaBase ==
    /\ pc = "putalpha_base"
    /\ img' = [img EXCEPT ![alpha_image] = PutAlpha(@, BaseAlpha)]
    /\ pc' = "convert"
    /\ UNCHANGED <<pillow, output_predictions, in0, pred0, colors, r,
                   alpha_image, seg_image, exc, calls, prev_seg>>
    /\ UNCHANGED <<nbvars, palvars, scalevars>>

\* line 134
ConvertStep ==
    /\ pc = "convert"
    /\ r' = ConvertRGBA(r, pillow)
    /\ pc' = "putalpha_mask"
    /\ UNCHANGED <<pillow, img, output_predictions, in0, pred0, colors,
                   alpha_image, seg_image, exc, calls, prev_seg>>
    /\ UNCHANGED <<nbvars, palvars, scalevars>>

\* line 135
PutAlphaMask ==
    /\ pc = "putalpha_mask"
    /\ r' = PutAlpha(r, MaskAlpha)
    /\ pc' = "composite"
    /\ UNCHANGED <<pillow, img, output_predictions, in0, pred0, colors,
                   alpha_image, seg_image, exc, calls, prev_seg>>
    /\ UNCHANGED <<nbvars, palvars, scalevars>>

\* lines 136-137: images of different mode or size raise ValueError
CompositeStep ==
    /\ pc = "composite"
    /\ IF CompositeOK(img[alpha_image], r)
       THEN /\ seg_image' = AlphaComposite(img[alpha_image], r)
            /\ pc' = "done"
            /\ exc' = exc
       ELSE /\ seg_image' = seg_image
            /\ pc' = "raised"
            /\ exc' = "ValueError"
    /\ UNCHANGED <<pillow, img, output_predictions, in0, pred0, colors, r,
                   alpha_image, calls, prev_seg>>
    /\ UNCHANGED <<nbvars, palvars, scalevars>>

SegStep ==
    \/ BuildPalette
    \/ MakeMask
    \/ PutPaletteStep
    \/ CopyStep
    \/ PutAlphaBase
    \/ ConvertStep
    \/ PutAlphaMask
    \/ CompositeStep

----------------------------------------------------------------------------
(* display_segmentation called on arbitrary arguments, and called again on  *)
(* the same objects                                                         *)

NbIdle ==
    /\ cell = "none"
    /\ IS_MACOS = FALSE
    /\ torch_predictions = NoTensor
    /\ mlmodel = {}
    /\ files = {}
    /\ saves = <<>>
    /\ loaded_model = "none"
    /\ prediction = NoTensor
    /\ result = NoImage

PalIdle == nclasses = 0 /\ table = <<>>
ScaleIdle == p = 0 /\ ch = 1 /\ torch_in = <<0, 0>> /\ coreml_in = <<0, 0>>

InitSeg ==
    /\ pillow \in PillowBuilds
    /\ \E im \in BaseImages : /\ img = [ref \in {"input", "copy"} |->
                                          IF ref = "input" THEN im ELSE NoImage]
                              /\ in0 = im
    /\ output_predictions \in LabelGrids \cup {PredictDict}
    /\ pred0 = output_predictions
    /\ pc = "start"
    /\ Locals0
    /\ calls = 1
    /\ prev_seg = NoImage
    /\ NbIdle /\ PalIdle /\ ScaleIdle

\* a second call with the same two objects as arguments
CallAgain ==
    /\ pc = "done"
    /\ calls < MaxCalls
    /\ calls' = calls + 1
    /\ prev_seg' = seg_image
    /\ pc' = "start"
    /\ colors' = <<>>
    /\ r' = NoImage
    /\ alpha_image' = "none"
    /\ seg_image' = NoImage
    /\ img' = [img EXCEPT !["copy"] = NoImage]
    /\ UNCHANGED <<pillow, output_predictions, in0, pred0, exc>>
    /\ UNCHANGED <<nbvars, palvars, scalevars>>

NextSeg == SegStep \/ CallAgain

SpecSeg == InitSeg /\ [][NextSeg]_vars

----------------------------------------------------------------------------
(* The notebook, cells run in order *)

\* labels_json["labels"], line 225
Labels == <<"background", "aeroplane", "bicycle", "bird", "board", "bottle",
            "bus", "car", "cat", "chair", "cow", "diningTable", "dog", "horse",
            "motorbike", "person", "pottedPlant", "sheep", "sofa", "train",
            "tvOrMonitor">>

PreviewTypeKey == "com.apple.coreml.model.preview.type"
PreviewParamsKey == "com.apple.coreml.model.preview.params"

PlainModelFile == "SegmentationModel.mlmodel"
MetadataModelFile == "SegmentationModel_with_metadata.mlmodel"

\* the file name given to ct.models.MLModel, line 259
LoadedModelFileWithMetadata == "SegmentationModel_with_metadata.mlmodel"
LoadedModelFile == "SegmentationModel.mlmodel"

\* metadata[key] = value on a set of <<key, value>> pairs
SetKey(meta, key, value) == {kv \in meta : kv[1] # key} \cup {<<key, value>>}

\* mlmodel.save(name): writes (or overwrites) the file with the current metadata
SaveFile(fs, name, meta) == {f \in fs : f[1] # name} \cup {<<name, meta>>}

FileExists(name) == \E f \in files : f[1] = name
FileMeta(name) == (CHOOSE f \in files : f[1] = name)[2]

\* classes the pretrained model can report: output.argmax(0) over 21 channels
ModelClasses == {0, 8, 12}

SkippedPrediction == [kind |-> "str", w |-> 0, h |-> 0, data |-> <<>>]

\* entry of a call display_segmentation(input_image, arg)
CallDisplay(arg) ==
    /\ output_predictions' = arg
    /\ pred0' = arg
    /\ in0' = img["input"]
    /\ pc' = "start"
    /\ colors' = <<>>
    /\ r' = NoImage
    /\ alpha_image' = "none"
    /\ seg_image' = NoImage
    /\ exc' = "none"
    /\ calls' = calls + 1
    /\ prev_seg' = seg_image
    /\ img' = [img EXCEPT !["copy"] = NoImage]
    /\ UNCHANGED pillow

InitNb ==
    /\ pillow \in PillowBuilds
    /\ img = [ref \in {"input", "copy"} |-> NoImage]
    /\ in0 = NoImage
    /\ output_predictions = NoTensor
    /\ pred0 = NoTensor
    /\ pc = "idle"
    /\ Locals0
    /\ calls = 0
    /\ prev_seg = NoImage
    /\ cell = "imports"
    /\ IS_MACOS = FALSE
    /\ torch_predictions = NoTensor
    /\ mlmodel = {}
    /\ files = {}
    /\ saves = <<>>
    /\ loaded_model = "none"
    /\ prediction = NoTensor
    /\ result = NoImage
    /\ PalIdle /\ ScaleIdle

\* lines 26-36
CellImports ==
    /\ cell = "imports" /\ pc = "idle"
    /\ cell' = "load_model"
    /\ UNCHANGED <<IS_MACOS, torch_predictions, mlmodel, files, saves,
                   loaded_model, prediction, result>>
    /\ UNCHANGED <<segvars, palvars, scalevars>>

\* line 55
CellLoadModel ==
    /\ cell = "load_model" /\ pc = "idle"
    /\ cell' = "load_image"
    /\ UNCHANGED <<IS_MACOS, torch_predictions, mlmodel, files, saves,
                   loaded_model, prediction, result>>
    /\ UNCHANGED <<segvars, palvars, scalevars>>

\* lines 72-73
CellLoadImage ==
    /\ cell = "load_image" /\ pc = "idle"
    /\ \E im \in BaseImages : img' = [img EXCEPT !["input"] = im]
    /\ cell' = "predict"
    /\ UNCHANGED <<pillow, output_predictions, in0, pred0, pc, colors, r,
                   alpha_image, seg_image, exc, calls, prev_seg>>
    /\ UNCHANGED <<IS_MACOS, torch_predictions, mlmodel, files, saves,
                   loaded_model, prediction, result>>
    /\ UNCHANGED <<palvars, scalevars>>

\* lines 89-103: one class per pixel of the input image
CellPredict ==
    /\ cell = "predict" /\ pc = "idle"
    /\ torch_predictions' \in
           GridsOver(ModelClasses, {img["input"].w}, {img["input"].h})
    /\ cell' = "display"
    /\ UNCHANGED <<IS_MACOS, mlmodel, files, saves, loaded_model, prediction,
                   result>>
    /\ UNCHANGED <<segvars, palvars, scalevars>>

\* line 139
CellDisplay ==
    /\ cell = "display" /\ pc = "idle"
    /\ CallDisplay(torch_predictions)
    /\ cell' = "display_running"
    /\ UNCHANGED <<IS_MACOS, torch_predictions, mlmodel, files, saves,
                   loaded_model, prediction, result>>
    /\ UNCHANGED <<palvars, scalevars>>

\* the call returns to the cell that made it; line 261 assigns result
ReturnToCell ==
    /\ pc = "done"
    /\ cell \in {"display_running", "final_running"}
    /\ pc' = "idle"
    /\ IF cell = "final_running"
       THEN result' = seg_image /\ cell' = "end"
       ELSE result' = result /\ cell' = "trace"
    /\ UNCHANGED <<pillow, img, output_predictions, in0, pred0, colors, r,
                   alpha_image, seg_image, exc, calls, prev_seg>>
    /\ UNCHANGED <<IS_MACOS, torch_predictions, mlmodel, files, saves,
                   loaded_model, prediction>>
    /\ UNCHANGED <<palvars, scalevars>>

\* lines 157-169
CellTrace ==
    /\ cell = "trace" /\ pc = "idle"
    /\ cell' = "convert"
    /\ UNCHANGED <<IS_MACOS, torch_predictions, mlmodel, files, saves,
                   loaded_model, prediction, result>>
    /\ UNCHANGED <<segvars, palvars, scalevars>>

\* lines 186-191: a new MLModel, no user-defined metadata
CellConvert ==
    /\ cell = "convert" /\ pc = "idle"
    /\ mlmodel' = {}
    /\ cell' = "save"
    /\ UNCHANGED <<IS_MACOS, torch_predictions, files, saves, loaded_model,
                   prediction, result>>
    /\ UNCHANGED <<segvars, palvars, scalevars>>

\* line 207
CellSave ==
    /\ cell = "save" /\ pc = "idle"
    /\ files' = SaveFile(files, PlainModelFile, mlmodel)
    /\ saves' = Append(saves, PlainModelFile)
    /\ cell' = "metadata"
    /\ UNCHANGED <<IS_MACOS, torch_predictions, mlmodel, loaded_model,
                   prediction, result>>
    /\ UNCHANGED <<segvars, palvars, scalevars>>

\* lines 225-230
CellMetadata ==
    /\ cell = "metadata" /\ pc = "idle"
    /\ mlmodel' = SetKey(SetKey(mlmodel, PreviewTypeKey, <<"imageSegmenter">>),
                         PreviewParamsKey, Labels)
    /\ files' = SaveFile(files, MetadataModelFile, mlmodel')
    /\ saves' = Append(saves, MetadataModelFile)
    /\ cell' = "final"
    /\ UNCHANGED <<IS_MACOS, torch_predictions, loaded_model, prediction,
                   result>>
    /\ UNCHANGED <<segvars, palvars, scalevars>>

\* lines 255-265: on macOS the dict returned by predict is passed on as is
CellFinal ==
    /\ cell = "final" /\ pc = "idle"
    /\ \E mac \in BOOLEAN :
        /\ IS_MACOS' = mac
        /\ IF mac
           THEN /\ FileExists(LoadedModelFile)
                /\ loaded_model' = LoadedModelFile
                /\ prediction' = PredictDict
                /\ CallDisplay(prediction')
                /\ result' = result
                /\ cell' = "final_running"
           ELSE /\ prediction' = SkippedPrediction
                /\ result' = NoImage
                /\ loaded_model' = loaded_model
                /\ cell' = "end"
                /\ UNCHANGED segvars
    /\ UNCHANGED <<torch_predictions, mlmodel, files, saves>>
    /\ UNCHANGED <<palvars, scalevars>>

NextNb ==
    \/ CellImports
    \/ CellLoadModel
    \/ CellLoadImage
    \/ CellPredict
    \/ CellDisplay
    \/ SegStep
    \/ ReturnToCell
    \/ CellTrace
    \/ CellConvert
    \/ CellSave
    \/ CellMetadata
    \/ CellFinal

SpecNb == InitNb /\ [][NextNb]_vars

----------------------------------------------------------------------------
(* The palette formula for a class count N (the notebook uses N = 21) *)

SegIdle ==
    /\ pillow = "pre7"
    /\ img = [ref \in {"input", "copy"} |-> NoImage]
    /\ in0 = NoImage
    /\ output_predictions = NoTensor
    /\ pred0 = NoTensor
    /\ pc = "idle"
    /\ Locals0
    /\ calls = 0
    /\ prev_seg = NoImage

InitPalette ==
    /\ nclasses \in 1..MaxClasses
    /\ table = <<>>
    /\ SegIdle /\ NbIdle /\ ScaleIdle

\* lines 121-123 with range(nclasses)
BuildTable ==
    /\ table = <<>>
    /\ table' = Colors(nclasses)
    /\ UNCHANGED nclasses
    /\ UNCHANGED <<segvars, nbvars, scalevars>>

NextPalette == BuildTable

SpecPalette == InitPalette /\ [][NextPalette]_vars

----------------------------------------------------------------------------
(* Input scaling: preprocess (lines 89-95) against ImageType (lines 188-189) *)
(* Values are exact rationals <<numerator, denominator>> in lowest terms.    *)

RECURSIVE GCD(_, _)
GCD(a, b) == IF b = 0 THEN a ELSE GCD(b, a % b)

\* n / d in lowest terms, d > 0
Rat(n, d) ==
    LET g == GCD(Abs(n), Abs(d))
        sgn == IF d < 0 THEN -1 ELSE 1
    IN <<sgn * (n \div g), sgn * (d \div g)>>

\* thousandths: mean=[0.485, 0.456, 0.406], std=[0.229, 0.224, 0.225]
MeanMilli == <<485, 456, 406>>
StdMilli == <<229, 224, 225>>

\* thousandths: the 0.226 of scale=1.0/255.0/0.226 and of the three biases
ImageTypeStdMilli == 226
\* thousandths: bias=(-0.485/0.226, -0.456/0.226, -0.406/0.226)
BiasMeanMilli == <<485, 456, 406>>

PixelMax == 255

\* ToTensor then Normalize: (v/255 - mean[c]) / std[c]
Preprocess(v, c) == Rat(1000 * v - PixelMax * MeanMilli[c], PixelMax * StdMilli[c])

\* ImageType: v * scale + bias[c]
\*   = v * 1000 / (255 * 226) - BiasMeanMilli[c] / 226
ImageTypeInput(v, c) ==
    Rat(1000 * v - PixelMax * BiasMeanMilli[c], PixelMax * ImageTypeStdMilli)

InitScale ==
    /\ p \in 0..PixelMax
    /\ ch \in 1..3
    /\ torch_in = <<0, 0>>
    /\ coreml_in = <<0, 0>>
    /\ SegIdle /\ NbIdle /\ PalIdle

\* input_tensor = preprocess(input_image)
ApplyPreprocess ==
    /\ torch_in = <<0, 0>>
    /\ torch_in' = Preprocess(p, ch)
    /\ UNCHANGED <<p, ch, coreml_in>>
    /\ UNCHANGED <<segvars, nbvars, palvars>>

\* the converted model scales its image input
ApplyImageType ==
    /\ coreml_in = <<0, 0>>
    /\ coreml_in' = ImageTypeInput(p, ch)
    /\ UNCHANGED <<p, ch, torch_in>>
    /\ UNCHANGED <<segvars, nbvars, palvars>>

NextScale == ApplyPreprocess \/ ApplyImageType

SpecScale == InitScale /\ [][NextScale]_vars

----------------------------------------------------------------------------
(* Properties *)

PairwiseDistinct(t) ==
    \A i, j \in 1..Len(t) : i # j => t[i] # t[j]

IsTensorCall == pred0.kind = "tensor"

\* the values of the label grid handed to the call
GridValues == {pred0.data[xy] : xy \in Coords(pred0.w, pred0.h)}

\* the colour the 21-entry table gives a mask index
IndexColour(v) ==
    IF v < NumClasses THEN Colors(NumClasses)[v + 1] ELSE UnsetEntry(pillow, v)

\* C1: the colour table built inside display_segmentation has 21 entries,
\* entry i is ((i*(2^25-1)) mod 255, (i*(2^15-1)) mod 255, (i*(2^21-1)) mod 255),
\* and no two of the class indices 0..20 share an RGB triple.
C1_PaletteDistinct21 ==
    colors # <<>> =>
        /\ Len(colors) = 21
        /\ \A i \in 0..20 :
              colors[i + 1] = <<(i * 33554431) % 255, (i * 32767) % 255,
                                (i * 2097151) % 255>>
        /\ Cardinality({colors[i + 1] : i \in 0..20}) = 21

C1_Witness == pc = "done" /\ Len(colors) = 21 /\ colors[21] = <<20, 245, 110>>

\* C2 as stated: for every class count N in 1..256 the formula gives N
\* pairwise distinct colours to the indices 0..N-1.
C2_DistinctUpTo256 ==
    (table # <<>> /\ nclasses <= 256) => PairwiseDistinct(table)

\* C2 amended: for every class count N in 1..255 the formula gives N pairwise
\* distinct colours to the indices 0..N-1; index 255 repeats the colour
\* (0, 0, 0) of index 0.
C2_DistinctUpTo255 ==
    /\ (table # <<>> /\ nclasses <= 255) => PairwiseDistinct(table)
    /\ (table # <<>> /\ nclasses >= 256) => table[256] = table[1]

C2_Witness == nclasses = 255 /\ Len(table) = 255

\* C3: whenever the label grid is a tensor, of any resolution, the call
\* returns a composite and its size is the size of the base image.
C3_CompositeSize ==
    IsTensorCall =>
        /\ pc # "raised"
        /\ pc = "done" => (seg_image.w = in0.w /\ seg_image.h = in0.h)

C3_Witness ==
    /\ pc = "done" /\ calls = 1
    /\ pred0.w < in0.w /\ pred0.h > in0.h
    /\ seg_image.w = in0.w /\ seg_image.h = in0.h

\* C4: in the returned composite every pixel is opaque and each colour
\* channel is (127 * base + 128 * mask colour) / 255 rounded to the nearest
\* integer, the base having been given alpha 255 and the mask alpha 128;
\* white under the colour (0, 0, 0) of class 0 gives 127 or 128, and a
\* uniform white base under a uniform class-0 grid gives a uniform composite.
C4_AlphaBlend ==
    pc = "done" =>
        \A xy \in Coords(in0.w, in0.h) :
            LET out == seg_image.px[xy]
                base == in0.px[xy]
                mask == r.px[xy]
            IN /\ out[4] = 255
               /\ img[alpha_image].px[xy] = <<base[1], base[2], base[3], 255>>
               /\ mask[4] = 128
               /\ \A k \in 1..3 :
                     2 * Abs(255 * out[k] - (127 * base[k] + 128 * mask[k])) <= 255
               /\ (base = <<255, 255, 255>> /\ <<mask[1], mask[2], mask[3]>> = <<0, 0, 0>>)
                     => \A k \in 1..3 : out[k] \in {127, 128}
               /\ ( /\ \A q \in Coords(in0.w, in0.h) : in0.px[q] = <<255, 255, 255>>
                    /\ GridValues = {0} )
                     => out = seg_image.px[<<0, 0>>]

C4_Witness ==
    /\ pc = "done"
    /\ in0.w = 2 /\ in0.h = 2 /\ pred0.w = 2 /\ pred0.h = 2
    /\ \A q \in Coords(2, 2) : in0.px[q] = <<255, 255, 255>>
    /\ GridValues = {0}
    /\ \A q \in Coords(2, 2) : seg_image.px[q] = <<127, 127, 127, 255>>

\* C5: the call leaves both arguments as they were when it started (the
\* base image keeps its pixels and its mode "RGB"), and a second call on
\* the same two objects returns the same composite as the first.
C5_NoSideEffects ==
    /\ img["input"] = in0
    /\ output_predictions = pred0
    /\ (pc = "done" /\ calls >= 2) => seg_image = prev_seg

C5_Witness ==
    /\ pc = "done" /\ calls = 2
    /\ seg_image # NoImage /\ seg_image = prev_seg
    /\ img["input"].mode = "RGB" /\ img["copy"].mode = "RGBA"

\* C6: a tensor holding label values in 21..255 raises no error, and the
\* values reach the palette lookup unchanged: a grid that holds one value
\* everywhere, or that has the size of the base image, gives a mask whose
\* indices are the grid's own values.
C6_NoBoundsCheck ==
    IsTensorCall =>
        /\ pc # "raised" /\ exc = "none"
        /\ r.mode \in {"L", "P"} =>
              /\ Cardinality(GridValues) = 1 =>
                    \A xy \in Coords(r.w, r.h) : {r.px[xy]} = GridValues
              /\ (pred0.w = in0.w /\ pred0.h = in0.h) =>
                    \A xy \in Coords(r.w, r.h) : r.px[xy] = pred0.data[xy]

C6_Witness ==
    /\ pc = "done" /\ exc = "none" /\ IsTensorCall
    /\ pred0.w = in0.w /\ pred0.h = in0.h
    /\ 21 \in GridValues /\ 255 \in GridValues

\* C7: every mask pixel blended into the returned composite carries the
\* palette colour of a class index that occurs in the input label grid.
C7_MaskColoursFromGrid ==
    (pc = "done" /\ IsTensorCall) =>
        \A xy \in Coords(r.w, r.h) :
            <<r.px[xy][1], r.px[xy][2], r.px[xy][3]>>
                \in {IndexColour(Byte(v)) : v \in GridValues}

\* C8: on macOS the final cell hands display_segmentation a 2-D label
\* tensor, and the call returns a composite.
C8_MacOSPredictionIsGrid ==
    (IS_MACOS /\ cell \in {"final_running", "end"}) =>
        /\ output_predictions.kind = "tensor"
        /\ pc # "raised"

\* C9: for every pixel value and channel, the ImageType scaling equals the
\* preprocess transform.
C9_ScalingAgrees ==
    (torch_in # <<0, 0>> /\ coreml_in # <<0, 0>>) => torch_in = coreml_in

\* C10: SegmentationModel.mlmodel is saved first, once, without either
\* preview key, and is the file loaded on macOS; the file with metadata is
\* saved after it with preview type imageSegmenter and the label list, which
\* has 21 entries, "background" first, as many as the palette has colours.
C10_SaveOrder ==
    /\ saves \in {<<>>, <<PlainModelFile>>, <<PlainModelFile, MetadataModelFile>>}
    /\ FileExists("SegmentationModel.mlmodel") =>
          FileMeta("SegmentationModel.mlmodel") = {}
    /\ loaded_model # "none" =>
          /\ loaded_model = "SegmentationModel.mlmodel"
          /\ FileExists(loaded_model)
    /\ FileExists("SegmentationModel_with_metadata.mlmodel") =>
          LET meta == FileMeta("SegmentationModel_with_metadata.mlmodel")
          IN /\ <<PreviewTypeKey, <<"imageSegmenter">>>> \in meta
             /\ \E kv \in meta :
                   /\ kv[1] = PreviewParamsKey
                   /\ Len(kv[2]) = 21
                   /\ kv[2][1] = "background"
                   /\ Len(kv[2]) = Len(Colors(NumClasses))
                   /\ colors # <<>> => Len(kv[2]) = Len(colors)
             /\ Cardinality(meta) = 2

C10_Witness ==
    /\ cell = "final_running"
    /\ loaded_model = "SegmentationModel.mlmodel"
    /\ saves = <<PlainModelFile, MetadataModelFile>>

====
